---- MODULE Spec2Model ----
(***************************************************************************)
(* State machine of the OpenStreetMap session class (a wrapper over the    *)
(* Leaflet rendering engine): initialization, the coordinate selector,     *)
(* the marker / circle / route layer lists and the route planner with its  *)
(* asynchronous routing-service request.                                   *)
(*                                                                         *)
(* Layers are numbered 1, 2, ... in creation order; 0 stands for null.     *)
(* Map instances are numbered the same way.  Every layer carries the role  *)
(* of the code path that created it (layerKind) and the map instance it is *)
(* attached to (layerMap, 0 = detached).                                   *)
(***************************************************************************)
EXTENDS Integers, Sequences, FiniteSets, TLC

\* ---------------------------------------------------------------- bounds
\* layers a run of the selector specification may create
MaxLayers == 4
\* listeners of one kind setupSelector may attach to one map
MaxListeners == 2
\* layers a run of the route specification may create (a suspended drawRoute
\* call counts the path it is still to draw)
MaxRouteLayers == 6

\* layers a run of the session specification may create
MaxSessionLayers == 3
\* setupSelector calls and setupSearch calls on one map in the session
\* specification
MaxSetups == 1

\* layers a run of the initialization specification may create
MaxInitLayers == 2

\* ---------------------------------------------------------------- values
\* A JavaScript value that reaches a coordinate or zoom parameter.  A number
\* is sign * (u micro-units + n nano-units); a numeric string carries the
\* number it spells.
Undef == [t |-> "undef", s |-> 1, u |-> 0, n |-> 0]
NaN == [t |-> "nan", s |-> 1, u |-> 0, n |-> 0]
Num(s, u, n) == [t |-> "num", s |-> s, u |-> u, n |-> n]
Deg(d) == IF d < 0 THEN Num(-1, (0 - d) * 1000000, 0) ELSE Num(1, d * 1000000, 0)

IsZero(x) == x.u = 0 /\ x.n = 0
\* JavaScript truthiness: undefined, NaN and +-0 are falsy, every string
\* produced here is non-empty and truthy.
Truthy(x) == x.t = "str" \/ (x.t = "num" /\ ~IsZero(x))
\* x ?? d
Nullish(x, d) == IF x.t = "undef" THEN d ELSE x
\* x || d
OrElse(x, d) == IF Truthy(x) THEN x ELSE d
\* Leaflet's LatLng constructor throws on isNaN(lat) || isNaN(lng)
IsNaNJs(x) == x.t \in {"undef", "nan"}
\* The number a value converts to (unary plus), for values that are not NaN
ToNumber(x) == [x EXCEPT !.t = "num"]

parseFloat(x) == IF x.t \in {"num", "str"} THEN [x EXCEPT !.t = "num"] ELSE NaN
parseInt(x) == IF x.t \in {"num", "str"}
               THEN [x EXCEPT !.t = "num", !.u = x.u - (x.u % 1000000), !.n = 0]
               ELSE NaN
\* Number.prototype.toFixed(8): rounds the magnitude half up to 1e-8 and
\* prints it; the sign is printed when the number is below zero.
toFixed8(x) ==
    LET r == ((x.n + 5) \div 10) * 10
        carry == r = 1000
    IN  [t |-> "str",
         s |-> IF IsZero(x) THEN 1 ELSE x.s,
         u |-> IF carry THEN x.u + 1 ELSE x.u,
         n |-> IF carry THEN 0 ELSE r]

LatLng(lat, lng) == [lat |-> lat, lng |-> lng]

\* static DEFAULTS
DEFAULTS == [lat |-> Num(1, 8240773, 0), lng |-> Num(-1, 65546409, 0),
             zoom |-> Deg(7), containerId |-> "map"]

VARIABLES
    map,                \* #map: the current map instance, 0 = null
    maps,               \* container id of every map instance created so far
    config,             \* this.config (lat, lng, zoom, containerId)
    view,               \* center and zoom of the current map, <<>> before initMap
    clickListeners,     \* per map instance: 'click' listeners attached by setupSelector
    confirmListeners,   \* per map container: delegated confirm-button listeners
    geocoders,          \* per map instance: geocoder controls added by setupSearch
    selectorMarker,     \* #selectorMarker, 0 = null
    selectedCoords,     \* #selectedCoords: <<>> = null, <<LatLng>> otherwise
    isSelectorEnabled,  \* #isSelectorEnabled
    onSelectCallback,   \* #onSelectCallback: "null" or the registered function
    routeLayers,        \* #routeLayers: records polyline, originMarker, destinationMarker
    markers,            \* #markers
    circles,            \* #circles
    layerKind,          \* role of every layer created so far
    layerMap,           \* map instance each layer is attached to, 0 = detached
    pending,            \* drawRoute calls suspended on the routing request
    call                \* the last operation: its name, return value, effects on the host

vars == <<map, maps, config, view, clickListeners, confirmListeners, geocoders,
          selectorMarker, selectedCoords, isSelectorEnabled, onSelectCallback,
          routeLayers, markers, circles, layerKind, layerMap, pending, call>>

\* The object's fields as one record, threaded through the method bodies.
\* r is the value the last helper returned, exc is set once an exception is
\* propagating, invoked/alerted/fetched record the host effects of the call.
Self == [map |-> map, maps |-> maps, config |-> config, view |-> view,
         clickListeners |-> clickListeners, confirmListeners |-> confirmListeners,
         geocoders |-> geocoders,
         selectorMarker |-> selectorMarker, selectedCoords |-> selectedCoords,
         isSelectorEnabled |-> isSelectorEnabled, onSelectCallback |-> onSelectCallback,
         routeLayers |-> routeLayers, markers |-> markers, circles |-> circles,
         layerKind |-> layerKind, layerMap |-> layerMap, pending |-> pending,
         r |-> 0, v |-> [kind |-> "undefined"], exc |-> FALSE, invoked |-> <<>>, alerted |-> FALSE, fetched |-> FALSE]

\* ---------------------------------------------------------------- returns
RetNull == [kind |-> "null"]
RetUndefined == [kind |-> "undefined"]
RetThis == [kind |-> "this"]
RetThrow == [kind |-> "throw"]
RetEmptyList == [kind |-> "list", ids |-> <<>>]
RetPromise == [kind |-> "pending"]
RetHandle(id) == IF id = 0 THEN RetNull ELSE [kind |-> "handle", id |-> id]

\* ---------------------------------------------------------------- rendering engine
\* map.removeLayer(layer): detaches the layer when this map holds it, and
\* does nothing otherwise.
removeLayer(s, id) ==
    IF id \in 1..Len(s.layerMap) /\ s.layerMap[id] = s.map
    THEN [s EXCEPT !.layerMap[id] = 0]
    ELSE s

RECURSIVE removeLayers(_, _)
removeLayers(s, ids) ==
    IF ids = <<>> THEN s ELSE removeLayers(removeLayer(s, Head(ids)), Tail(ids))

\* L.<layer>(...).addTo(this.#map): a new layer attached to the current map
addTo(s, kind) ==
    [s EXCEPT !.layerKind = Append(@, kind), !.layerMap = Append(@, s.map),
              !.r = Len(s.layerKind) + 1]

\* map.fitBounds(bounds, ...): the engine chooses the center and zoom that
\* frame the bounds (v); bounds without a point are rejected with an error.
fitBounds(s, valid, v) ==
    IF s.exc THEN s
    ELSE IF ~valid THEN [s EXCEPT !.exc = TRUE]
    ELSE [s EXCEPT !.view = <<v>>]

\* ---------------------------------------------------------------- guards
requireMap(s) == s.map # 0

\* #requireSelector looking at the map alone
requireSelectorMapOnly(s) == requireMap(s)

requireSelector(s) == requireMap(s) /\ s.isSelectorEnabled

\* ---------------------------------------------------------------- markers
\* addMarker without its guard on the map
addMarkerUnguarded(s, lat, lng, kind) ==
    IF s.exc THEN s
    ELSE LET la == Nullish(lat, s.config.lat)
             ln == Nullish(lng, s.config.lng)
         IN  IF IsNaNJs(la) \/ IsNaNJs(ln)
             THEN [s EXCEPT !.exc = TRUE]
             ELSE LET s1 == addTo(s, kind)
                  IN  [s1 EXCEPT !.markers = Append(@, s1.r)]

addMarker(s, lat, lng, kind) ==
    IF s.exc THEN s
    ELSE IF ~requireMap(s) THEN [s EXCEPT !.r = 0]
    ELSE LET la == Nullish(lat, s.config.lat)
             ln == Nullish(lng, s.config.lng)
         IN  IF IsNaNJs(la) \/ IsNaNJs(ln)
             THEN [s EXCEPT !.exc = TRUE]
             ELSE LET s1 == addTo(s, kind)
                  IN  [s1 EXCEPT !.markers = Append(@, s1.r)]

clearMarkers(s) ==
    IF s.map = 0 THEN s
    ELSE [removeLayers(s, s.markers) EXCEPT !.markers = <<>>]

\* ---------------------------------------------------------------- selector
\* clearSelector forgetting the marker without taking it off the map
clearSelectorKeepsLayer(s) ==
    IF s.map = 0 \/ s.selectorMarker = 0 THEN s
    ELSE [s EXCEPT !.selectorMarker = 0, !.selectedCoords = <<>>]

clearSelector(s) ==
    IF s.map = 0 \/ s.selectorMarker = 0 THEN s
    ELSE [removeLayer(s, s.selectorMarker) EXCEPT
              !.selectorMarker = 0, !.selectedCoords = <<>>]

placeSelector(s, lat, lng) ==
    IF s.exc \/ ~requireSelector(s) THEN s
    ELSE LET s1 == clearSelector(s)
             s2 == [s1 EXCEPT !.selectedCoords = <<LatLng(lat, lng)>>]
             s3 == addMarker(s2, lat, lng, "selector")
         IN  IF s3.exc THEN s3 ELSE [s3 EXCEPT !.selectorMarker = s3.r]

getSelectedCoordinates(s) ==
    IF s.selectedCoords = <<>> THEN RetNull
    ELSE LET c == s.selectedCoords[1]
         IN  [kind |-> "coords", lat |-> parseFloat(c.lat), lng |-> parseFloat(c.lng),
              formatted |-> c]

\* confirmSelection dropping the selection once it has reported it
confirmSelectionClears(s) ==
    LET coords == getSelectedCoordinates(s)
    IN  IF coords.kind = "null"
        THEN [s EXCEPT !.alerted = TRUE, !.v = coords]
        ELSE [clearSelector(s) EXCEPT
                  !.v = coords,
                  !.invoked = Append(@, [fn |-> s.onSelectCallback,
                                         lat |-> coords.lat, lng |-> coords.lng])]

\* confirmSelection calling back before it looks at the selection
confirmSelectionCallsFirst(s) ==
    LET coords == getSelectedCoordinates(s)
        s1 == [s EXCEPT !.v = coords,
                        !.invoked = Append(@, [fn |-> s.onSelectCallback,
                                               lat |-> Undef, lng |-> Undef])]
    IN  IF coords.kind = "null" THEN [s1 EXCEPT !.alerted = TRUE] ELSE s1

\* confirmSelection: v is the value it returns
confirmSelection(s) ==
    LET coords == getSelectedCoordinates(s)
    IN  IF coords.kind = "null"
        THEN [s EXCEPT !.alerted = TRUE, !.v = coords]
        ELSE IF s.onSelectCallback = "null"
             THEN [s EXCEPT !.v = coords]
             ELSE [s EXCEPT !.v = coords,
                            !.invoked = Append(@, [fn |-> s.onSelectCallback,
                                                   lat |-> coords.lat, lng |-> coords.lng])]

handleMapClick(s, lat, lng) ==
    IF ~s.isSelectorEnabled THEN s
    ELSE placeSelector(s, toFixed8(lat), toFixed8(lng))

\* ---------------------------------------------------------------- circles
addCircle(s, lat, lng) ==
    IF s.exc THEN s
    ELSE IF ~requireMap(s) THEN [s EXCEPT !.r = 0]
    ELSE IF IsNaNJs(lat) \/ IsNaNJs(lng) THEN [s EXCEPT !.exc = TRUE]
    ELSE LET s1 == addTo(s, "circle")
         IN  [s1 EXCEPT !.circles = Append(@, s1.r)]

\* clearCircles emptying the list without taking the circles off the map
clearCirclesKeepsLayers(s) ==
    IF s.map = 0 THEN s
    ELSE [s EXCEPT !.circles = <<>>]

clearCircles(s) ==
    IF s.map = 0 THEN s
    ELSE [removeLayers(s, s.circles) EXCEPT !.circles = <<>>]

\* ---------------------------------------------------------------- distance
\* The arithmetic of #haversineDistance on a grid: angles in units of 1e-4
\* radian, sines, cosines and the haversine term in units of 1e-4.  Every
\* operation rounds to the nearest grid value, halves away from zero, which
\* like the rounding of JavaScript numbers gives -x the mirror image of x.
RoundDiv(x, d) ==
    IF x >= 0 THEN (2 * x + d) \div (2 * d) ELSE 0 - ((2 * (0 - x) + d) \div (2 * d))

\* x * y for two grid values
Mul(x, y) == RoundDiv(x * y, 10000)

\* The number a coordinate converts to, in signed micro-degrees
Micro(x) == x.s * x.u

\* toRad: deg * Math.PI / 180 (one grid step is 5730 micro-degrees)
toRad(deg) == RoundDiv(deg, 5730)

\* The power series of Math.sin (n = 1, term = x) and of Math.cos (n = 0,
\* term = 1), summed up to the term of degree 17
RECURSIVE series(_, _, _)
series(x, term, n) ==
    IF n > 17 THEN 0
    ELSE term + series(x, 0 - RoundDiv(Mul(Mul(term, x), x), (n + 1) * (n + 2)), n + 2)

sin(x) == series(x, x, 1)

cos(x) == series(x, 10000, 0)

\* The largest r in lo..hi with r * r <= n
RECURSIVE rootBelow(_, _, _)
rootBelow(n, lo, hi) ==
    IF lo = hi THEN lo
    ELSE LET mid == (lo + hi + 1) \div 2
         IN  IF mid * mid <= n THEN rootBelow(n, mid, hi) ELSE rootBelow(n, lo, mid - 1)

\* Math.sqrt of a grid value in 0..1, to the nearest grid value
sqrt(x) ==
    LET n == x * 10000
        r == rootBelow(n, 0, 10000)
    IN  IF n - r * r > r THEN r + 1 ELSE r

\* Math.atan2(y, x) for y >= 0 and x >= 0: the angle of the point (x, y),
\* by the approximation atan(z) = z * (pi/4 + 0.273 * (1 - z)) on 0..1
atan2(y, x) ==
    LET atan(z) == Mul(z, 7854 + Mul(2730, 10000 - z))
    IN  IF y = 0 THEN 0
        ELSE IF y <= x THEN atan(RoundDiv(y * 10000, x))
        ELSE 15708 - atan(RoundDiv(x * 10000, y))

\* radio de la Tierra en metros
R == 6371000

\* #haversineDistance with cos(lat1) squared in place of cos(lat1) * cos(lat2)
haversineDistanceOneLatitude(lat1, lng1, lat2, lng2) ==
    LET dLat == toRad(Micro(lat2) - Micro(lat1))
        dLng == toRad(Micro(lng2) - Micro(lng1))
        sLat == sin(RoundDiv(dLat, 2))
        sLng == sin(RoundDiv(dLng, 2))
        a == Mul(sLat, sLat)
             + Mul(Mul(cos(toRad(Micro(lat1))), cos(toRad(Micro(lat1)))), Mul(sLng, sLng))
    IN  IF a > 10000 THEN [kind |-> "nan"]
        ELSE [kind |-> "number",
              value |-> RoundDiv((R \div 1000) * 2 * atan2(sqrt(a), sqrt(10000 - a)), 10)]

\* #haversineDistance(lat1, lng1, lat2, lng2) in meters; Math.sqrt of a
\* negative 1 - a is NaN and so is the result
haversineDistance(lat1, lng1, lat2, lng2) ==
    LET dLat == toRad(Micro(lat2) - Micro(lat1))
        dLng == toRad(Micro(lng2) - Micro(lng1))
        sLat == sin(RoundDiv(dLat, 2))
        sLng == sin(RoundDiv(dLng, 2))
        a == Mul(sLat, sLat)
             + Mul(Mul(cos(toRad(Micro(lat1))), cos(toRad(Micro(lat2)))), Mul(sLng, sLng))
    IN  IF a > 10000 THEN [kind |-> "nan"]
        ELSE [kind |-> "number",
              value |-> RoundDiv((R \div 1000) * 2 * atan2(sqrt(a), sqrt(10000 - a)), 10)]

\* ---------------------------------------------------------------- routes
\* clearRoutes taking only the paths off the map
RECURSIVE removeRoutesPathsOnly(_, _)
removeRoutesPathsOnly(s, entries) ==
    IF entries = <<>> THEN s
    ELSE removeRoutesPathsOnly(removeLayer(s, Head(entries).polyline), Tail(entries))

RECURSIVE removeRoutes(_, _)
removeRoutes(s, entries) ==
    IF entries = <<>> THEN s
    ELSE LET e == Head(entries)
             s1 == removeLayer(s, e.polyline)
             s2 == IF e.originMarker # 0 THEN removeLayer(s1, e.originMarker) ELSE s1
             s3 == IF e.destinationMarker # 0 THEN removeLayer(s2, e.destinationMarker) ELSE s2
         IN  removeRoutes(s3, Tail(entries))

clearRoutes(s) ==
    IF s.map = 0 THEN s
    ELSE [removeRoutes(s, s.routeLayers) EXCEPT !.routeLayers = <<>>]

\* #buildStraightRoute labelling its result as a road route
buildStraightRouteAsRoad(s, origin, destination) ==
    LET s1 == addTo(s, "path")
    IN  IF s.exc THEN s ELSE
        [s1 EXCEPT !.v = [kind |-> "route", polyline |-> s1.r, type |-> "road",
                          distance |-> "haversine", duration |-> "null",
                          durationMin |-> "null"]]

\* #buildStraightRoute: draws the two-point path; v is { polyline, data }
buildStraightRoute(s, origin, destination) ==
    LET s1 == addTo(s, "path")
    IN  IF s.exc THEN s ELSE
        [s1 EXCEPT !.v = [kind |-> "route", polyline |-> s1.r, type |-> "straight",
                          distance |-> "haversine", duration |-> "null",
                          durationMin |-> "null"]]

\* What the routing service answers to one request.
ServiceFailures == {"networkError", "notJson", "noRoutes", "emptyRoutes", "noGeometry"}
ServiceOutcomes == {"route", "routeEmptyPath"} \cup ServiceFailures

\* #fetchRoadRoute without its try/catch: a rejected request, a body that
\* is not JSON and a route without geometry propagate as errors
fetchRoadRouteUncaught(s, outcome) ==
    IF outcome \in {"networkError", "notJson", "noGeometry"}
    THEN [s EXCEPT !.exc = TRUE, !.v = RetNull]
    ELSE IF outcome \in ServiceFailures THEN [s EXCEPT !.v = RetNull]
    ELSE LET s1 == addTo(s, "path")
         IN  [s1 EXCEPT !.v = [kind |-> "route", polyline |-> s1.r, type |-> "road",
                               distance |-> "service", duration |-> "service",
                               durationMin |-> "service"]]

\* #fetchRoadRoute after the request settled with the given outcome: v is
\* { polyline, data }, or null when there is no usable route or an error was
\* caught.
fetchRoadRoute(s, outcome) ==
    IF outcome \in ServiceFailures THEN [s EXCEPT !.v = RetNull]
    ELSE LET s1 == addTo(s, "path")
         IN  [s1 EXCEPT !.v = [kind |-> "route", polyline |-> s1.r, type |-> "road",
                               distance |-> "service", duration |-> "service",
                               durationMin |-> "service"]]

\* drawRoute keeping the path alone in the entry it pushes
finishRoutePathOnly(s, originMarker, destinationMarker, fit, valid, fv) ==
    LET result == s.v
        s1 == [s EXCEPT !.routeLayers = Append(@, [polyline |-> result.polyline,
                                                   originMarker |-> 0,
                                                   destinationMarker |-> 0])]
        s2 == IF fit THEN fitBounds(s1, valid, fv) ELSE s1
    IN  IF s.exc THEN s ELSE
        [s2 EXCEPT !.v = [kind |-> "route", polyline |-> result.polyline,
                          type |-> result.type, distance |-> result.distance,
                          duration |-> result.duration, durationMin |-> result.durationMin,
                          origin |-> originMarker, destination |-> destinationMarker]]

\* drawRoute from the result of either strategy to its return
finishRoute(s, originMarker, destinationMarker, fit, valid, fv) ==
    LET result == s.v
        s1 == [s EXCEPT !.routeLayers = Append(@, [polyline |-> result.polyline,
                                                   originMarker |-> originMarker,
                                                   destinationMarker |-> destinationMarker])]
        s2 == IF fit THEN fitBounds(s1, valid, fv) ELSE s1
    IN  IF s.exc THEN s ELSE
        [s2 EXCEPT !.v = [kind |-> "route", polyline |-> result.polyline,
                          type |-> result.type, distance |-> result.distance,
                          duration |-> result.duration, durationMin |-> result.durationMin,
                          origin |-> originMarker, destination |-> destinationMarker]]

\* ---------------------------------------------------------------- operations
\* The end of a public call or of an event handler: the fields take their new
\* values and the call is recorded with what it returned.
Commit(s, op, args, ret) ==
    /\ map' = s.map
    /\ maps' = s.maps
    /\ config' = s.config
    /\ view' = s.view
    /\ clickListeners' = s.clickListeners
    /\ confirmListeners' = s.confirmListeners
    /\ geocoders' = s.geocoders
    /\ selectorMarker' = s.selectorMarker
    /\ selectedCoords' = s.selectedCoords
    /\ isSelectorEnabled' = s.isSelectorEnabled
    /\ onSelectCallback' = s.onSelectCallback
    /\ routeLayers' = s.routeLayers
    /\ markers' = s.markers
    /\ circles' = s.circles
    /\ layerKind' = s.layerKind
    /\ layerMap' = s.layerMap
    /\ pending' = s.pending
    /\ call' = [op |-> op, args |-> args, ret |-> IF s.exc THEN RetThrow ELSE ret,
                invoked |-> s.invoked, alerted |-> s.alerted, fetched |-> s.fetched]

NoArgs == <<>>

Init ==
    /\ map = 0
    /\ maps = <<>>
    /\ config = DEFAULTS
    /\ view = <<>>
    /\ clickListeners = <<>>
    /\ confirmListeners = <<>>
    /\ geocoders = <<>>
    /\ selectorMarker = 0
    /\ selectedCoords = <<>>
    /\ isSelectorEnabled = FALSE
    /\ onSelectCallback = "null"
    /\ routeLayers = <<>>
    /\ markers = <<>>
    /\ circles = <<>>
    /\ layerKind = <<>>
    /\ layerMap = <<>>
    /\ pending = {}
    /\ call = [op |-> "constructor", args |-> NoArgs, ret |-> RetThis,
               invoked |-> <<>>, alerted |-> FALSE, fetched |-> FALSE]

\* initMap({ lat, lng, containerId, zoom }); containerId "" stands for an
\* omitted one.  L.map throws when the container already holds a map.
initMap(p) ==
    LET s == Self
        lat == OrElse(parseFloat(p.lat), s.config.lat)
        lng == OrElse(parseFloat(p.lng), s.config.lng)
        containerId == IF p.containerId # "" THEN p.containerId ELSE s.config.containerId
        zoom == OrElse(parseInt(p.zoom), s.config.zoom)
        s1 == [s EXCEPT !.config.lat = lat, !.config.lng = lng, !.config.zoom = zoom]
        s2 == IF \E m \in 1..Len(s1.maps) : s1.maps[m] = containerId
              THEN [s1 EXCEPT !.exc = TRUE]
              ELSE [s1 EXCEPT !.maps = Append(@, containerId),
                              !.map = Len(s1.maps) + 1,
                              !.clickListeners = Append(@, 0),
                              !.confirmListeners = Append(@, 0),
                              !.geocoders = Append(@, 0),
                              !.view = <<[lat |-> lat, lng |-> lng, zoom |-> zoom]>>]
    IN  Commit(s2, "initMap", p, RetThis)

setupSearch ==
    LET s == Self
    IN  IF ~requireMap(s) THEN Commit(s, "setupSearch", NoArgs, RetThis)
        ELSE Commit([s EXCEPT !.geocoders[s.map] = @ + 1], "setupSearch", NoArgs, RetThis)

\* The geocoder control of map instance m resolved a location: every
\* 'markgeocode' handler fits the current map to the bounding box.
markGeocode(m, fv) ==
    /\ m \in 1..Len(maps)
    /\ geocoders[m] > 0
    /\ Commit(fitBounds(Self, TRUE, fv), "markgeocode", <<m>>, RetUndefined)

\* setupSelector(onSelect); the map is loaded since initMap set its view, so
\* whenReady runs its callback at once.
setupSelector(onSelect) ==
    LET s == Self
    IN  IF ~requireMap(s) THEN Commit(s, "setupSelector", <<onSelect>>, RetThis)
        ELSE LET s1 == [s EXCEPT !.isSelectorEnabled = TRUE,
                                 !.onSelectCallback = onSelect,
                                 !.clickListeners[s.map] = @ + 1,
                                 !.confirmListeners[s.map] = @ + 1]
                 s2 == placeSelector(s1, s1.config.lat, s1.config.lng)
             IN  Commit(s2, "setupSelector", <<onSelect>>, RetThis)

PlaceSelector(lat, lng) ==
    Commit(placeSelector(Self, lat, lng), "placeSelector", <<lat, lng>>, RetUndefined)

ClearSelector ==
    Commit(clearSelector(Self), "clearSelector", NoArgs, RetUndefined)

GetSelectedCoordinates ==
    Commit(Self, "getSelectedCoordinates", NoArgs, getSelectedCoordinates(Self))

ConfirmSelection ==
    LET s == confirmSelection(Self)
    IN  Commit(s, "confirmSelection", NoArgs, s.v)

RECURSIVE clickHandlers(_, _, _, _)
clickHandlers(s, k, lat, lng) ==
    IF k = 0 THEN s ELSE clickHandlers(handleMapClick(s, lat, lng), k - 1, lat, lng)

\* The user clicks map instance m at (lat, lng): each 'click' listener runs.
mapClick(m, lat, lng) ==
    /\ m \in 1..Len(maps)
    /\ clickListeners[m] > 0
    /\ Commit(clickHandlers(Self, clickListeners[m], lat, lng), "mapClick",
              <<m, lat, lng>>, RetUndefined)

RECURSIVE confirmHandlers(_, _)
confirmHandlers(s, k) ==
    IF k = 0 THEN s ELSE confirmHandlers(confirmSelection(s), k - 1)

\* The user clicks the confirm button of the selector popup shown on map
\* instance m: each delegated listener of that container runs.
confirmClick(m) ==
    /\ m \in 1..Len(maps)
    /\ confirmListeners[m] > 0
    /\ \E l \in 1..Len(layerKind) : layerKind[l] = "selector" /\ layerMap[l] = m
    /\ Commit(confirmHandlers(Self, confirmListeners[m]), "confirmClick", <<m>>,
              RetUndefined)

\* The endpoint precondition looking at the origin alone
missingLatLngOriginOnly(origin, destination) ==
    ~Truthy(origin.lat) \/ ~Truthy(origin.lng)

\* The precondition on the endpoints: !origin?.lat || !origin?.lng || ...
missingLatLng(origin, destination) ==
    \/ ~Truthy(origin.lat) \/ ~Truthy(origin.lng)
    \/ ~Truthy(destination.lat) \/ ~Truthy(destination.lng)

\* drawRoute(origin, destination, { useRoadRoute, fitBounds }) up to its
\* return (straight mode) or to the await of the routing request (road mode).
drawRoute(origin, destination, useRoadRoute, fit, fv) ==
    LET s == Self
        args == [origin |-> origin, destination |-> destination,
                 useRoadRoute |-> useRoadRoute, fitBounds |-> fit]
    IN  IF ~requireMap(s) THEN Commit(s, "drawRoute", args, RetNull)
        ELSE IF missingLatLng(origin, destination)
        THEN Commit(s, "drawRoute", args, RetNull)
        ELSE LET s1 == addMarker(s, origin.lat, origin.lng, "origin")
                 s2 == addMarker(s1, destination.lat, destination.lng, "destination")
             IN  IF useRoadRoute
                 THEN Commit([s2 EXCEPT !.fetched = TRUE,
                                        !.pending = @ \cup {[origin |-> origin,
                                                             destination |-> destination,
                                                             originMarker |-> s1.r,
                                                             destinationMarker |-> s2.r,
                                                             fitBounds |-> fit]}],
                             "drawRoute", args, RetPromise)
                 ELSE LET s3 == buildStraightRoute(s2, origin, destination)
                          s4 == finishRoute(s3, s1.r, s2.r, fit, TRUE, fv)
                      IN  Commit(s4, "drawRoute", args, s4.v)

\* The routing request of the suspended call p settles with the given
\* outcome and drawRoute runs to its return.
drawRouteResume(p, outcome, fv) ==
    /\ p \in pending
    /\ LET s == [Self EXCEPT !.pending = @ \ {p}]
           s1 == fetchRoadRoute(s, outcome)
           s2 == IF ~s1.exc /\ s1.v.kind = "null"
                 THEN buildStraightRoute(s1, p.origin, p.destination)
                 ELSE s1
           s3 == finishRoute(s2, p.originMarker, p.destinationMarker, p.fitBounds,
                             outcome # "routeEmptyPath", fv)
       IN  Commit(s3, "drawRoute.resume", [call |-> p, outcome |-> outcome], s3.v)

\* setView(lat, lng, zoom): Leaflet throws on a center that is not a number
setView(lat, lng, zoom) ==
    LET s == Self
    IN  IF ~requireMap(s) THEN Commit(s, "setView", <<lat, lng, zoom>>, RetThis)
        ELSE IF IsNaNJs(lat) \/ IsNaNJs(lng)
        THEN Commit([s EXCEPT !.exc = TRUE], "setView", <<lat, lng, zoom>>, RetThis)
        ELSE Commit([s EXCEPT !.view = <<[lat |-> ToNumber(lat), lng |-> ToNumber(lng),
                                         zoom |-> OrElse(zoom, s.view[1].zoom)]>>],
                    "setView", <<lat, lng, zoom>>, RetThis)

ClearRoutes ==
    Commit(clearRoutes(Self), "clearRoutes", NoArgs, RetUndefined)

AddMarker(lat, lng) ==
    LET s == addMarker(Self, lat, lng, "generic")
    IN  Commit(s, "addMarker", <<lat, lng>>, RetHandle(s.r))

RECURSIVE addEach(_, _, _)
addEach(s, specs, circle) ==
    IF specs = <<>> THEN s
    ELSE addEach(IF circle THEN addCircle(s, Head(specs).lat, Head(specs).lng)
                 ELSE addMarker(s, Head(specs).lat, Head(specs).lng, "generic"),
                 Tail(specs), circle)

\* addMarkers(markers, { fitBounds })
addMarkers(specs, fit, fv) ==
    LET s == Self
    IN  IF ~requireMap(s) THEN Commit(s, "addMarkers", <<specs, fit>>, RetEmptyList)
        ELSE LET s1 == addEach(s, specs, FALSE)
                 created == Len(s1.layerKind) - Len(s.layerKind)
                 s2 == IF fit /\ created > 0 THEN fitBounds(s1, TRUE, fv) ELSE s1
             IN  Commit(s2, "addMarkers", <<specs, fit>>, RetThis)

ClearMarkers ==
    Commit(clearMarkers(Self), "clearMarkers", NoArgs, RetThis)

AddCircle(lat, lng) ==
    LET s == addCircle(Self, lat, lng)
    IN  Commit(s, "addCircle", <<lat, lng>>, RetHandle(s.r))

\* addCircles(circles, { fitBounds })
addCircles(specs, fit, fv) ==
    LET s == Self
    IN  IF ~requireMap(s) THEN Commit(s, "addCircles", <<specs, fit>>, RetThis)
        ELSE LET s1 == addEach(s, specs, TRUE)
                 created == Len(s1.layerKind) - Len(s.layerKind)
                 s2 == IF fit /\ created > 0 THEN fitBounds(s1, TRUE, fv) ELSE s1
             IN  Commit(s2, "addCircles", <<specs, fit>>, RetThis)

ClearCircles ==
    Commit(clearCircles(Self), "clearCircles", NoArgs, RetThis)

\* One evaluation of the static #haversineDistance on two points
HaversineDistance(a, b) ==
    Commit(Self, "haversineDistance", <<a, b>>,
           haversineDistance(a.lat, a.lng, b.lat, b.lng))

\* ---------------------------------------------------------------- inputs
\* initMap() with every parameter omitted
InitDefault == [lat |-> Undef, lng |-> Undef, containerId |-> "", zoom |-> Undef]

Callbacks == {"f", "g"}

\* Clicked positions: one that toFixed(8) rounds, and the equator/meridian
ClickPoints == {LatLng(Num(1, 1000000, 4), Num(-1, 2000000, 996)), LatLng(Deg(0), Deg(0))}

SelectorPoints == {LatLng(Deg(1), Deg(-2))}

MarkerPoints == {LatLng(Deg(1), Deg(1)), LatLng(Undef, Undef)}

MarkerLists == {<<>>} \cup {<<a>> : a \in MarkerPoints}

\* drawRoute calls <<origin, destination, useRoadRoute, fitBounds>>: both
\* strategies with complete endpoints, a zero latitude, a missing latitude
RouteCalls ==
    {<<LatLng(Deg(1), Deg(-2)), LatLng(Deg(3), Deg(4)), FALSE, TRUE>>,
     <<LatLng(Deg(1), Deg(-2)), LatLng(Deg(3), Deg(4)), TRUE, TRUE>>,
     <<LatLng(Deg(1), Deg(-2)), LatLng(Deg(3), Deg(4)), TRUE, FALSE>>,
     <<LatLng(Deg(0), Deg(-2)), LatLng(Deg(3), Deg(4)), FALSE, TRUE>>,
     <<LatLng(Deg(1), Deg(-2)), LatLng(Undef, Deg(4)), TRUE, TRUE>>}

\* The view the engine chooses when it fits bounds
FitViews == {[lat |-> Deg(1), lng |-> Deg(0), zoom |-> Deg(9)]}

\* Inputs of the session specification: a straight route without framing,
\* a view with its zoom omitted, an empty list and a list of one point
SessionRouteCalls == {<<LatLng(Deg(1), Deg(-2)), LatLng(Deg(3), Deg(4)), FALSE, FALSE>>}

SessionViews == {<<Deg(1), Deg(-2), Undef>>}

SessionLists == {<<>>, <<LatLng(Deg(1), Deg(1))>>}

\* initMap parameters: all omitted; zero latitude and zoom with a longitude
\* given as a string and another container; a fractional zoom with a zero
\* longitude and a zoom that is not a number
InitParams ==
    {InitDefault,
     [lat |-> Deg(0), lng |-> [t |-> "str", s |-> -1, u |-> 66900000, n |-> 0],
      containerId |-> "alt", zoom |-> Deg(0)],
     [lat |-> Num(1, 10500000, 0), lng |-> Deg(0), containerId |-> "",
      zoom |-> Num(1, 12500000, 0)]}

\* setView arguments: zoom omitted, zoom zero, zoom five
ViewParams ==
    {<<Deg(1), Deg(-2), Undef>>, <<Deg(1), Deg(-2), Deg(0)>>, <<Deg(3), Deg(4), Deg(5)>>}

\* Points for the distance function: whole degrees on both sides of the
\* equator and of the prime meridian, the default center among them
DistancePoints ==
    {LatLng(Deg(la), Deg(ln)) : la \in {-10, 0, 8, 10}, ln \in {-66, -65, 0, 20}}
    \cup {LatLng(DEFAULTS.lat, DEFAULTS.lng)}

CountKind(kinds) == Cardinality({l \in 1..Len(layerKind) : layerKind[l] \in kinds})

\* ---------------------------------------------------------------- specifications
\* The coordinate selector and the marker list on one map
BoundedSelector ==
    /\ Len(layerKind) <= MaxLayers
    /\ \A m \in 1..Len(maps) : clickListeners[m] <= MaxListeners

NextSelector ==
    \/ initMap(InitDefault) /\ BoundedSelector'
    \/ (\E f \in Callbacks : setupSelector(f)) /\ BoundedSelector'
    \/ (\E c \in SelectorPoints : PlaceSelector(c.lat, c.lng)) /\ BoundedSelector'
    \/ ClearSelector /\ BoundedSelector'
    \/ GetSelectedCoordinates /\ BoundedSelector'
    \/ ConfirmSelection /\ BoundedSelector'
    \/ (\E m \in 1..Len(maps), c \in ClickPoints : mapClick(m, c.lat, c.lng))
          /\ BoundedSelector'
    \/ (\E m \in 1..Len(maps) : confirmClick(m)) /\ BoundedSelector'
    \/ (\E c \in MarkerPoints : AddMarker(c.lat, c.lng)) /\ BoundedSelector'
    \/ (\E l \in MarkerLists, fit \in BOOLEAN, fv \in FitViews : addMarkers(l, fit, fv))
          /\ BoundedSelector'
    \/ ClearMarkers /\ BoundedSelector'

SpecSelector == Init /\ [][NextSelector]_vars

\* The route planner with the marker and circle lists on one map
BoundedRoutes == Len(layerKind) + Cardinality(pending) <= MaxRouteLayers

NextRoutes ==
    \/ initMap(InitDefault) /\ BoundedRoutes'
    \/ (\E c \in RouteCalls, fv \in FitViews : drawRoute(c[1], c[2], c[3], c[4], fv))
          /\ BoundedRoutes'
    \/ (\E p \in pending, o \in ServiceOutcomes, fv \in FitViews :
           drawRouteResume(p, o, fv)) /\ BoundedRoutes'
    \/ ClearRoutes /\ BoundedRoutes'
    \/ AddMarker(Deg(1), Deg(1)) /\ BoundedRoutes'
    \/ ClearMarkers /\ BoundedRoutes'
    \/ AddCircle(Deg(1), Deg(1)) /\ BoundedRoutes'
    \/ ClearCircles /\ BoundedRoutes'

SpecRoutes == Init /\ [][NextRoutes]_vars

\* Every public operation on one session, before and after initMap
BoundedSession ==
    /\ Len(layerKind) <= MaxSessionLayers
    /\ \A m \in 1..Len(maps) :
          clickListeners[m] <= MaxSetups /\ geocoders[m] <= MaxSetups

NextSession ==
    \/ initMap(InitDefault) /\ BoundedSession'
    \/ setupSearch /\ BoundedSession'
    \/ setupSelector("f") /\ BoundedSession'
    \/ (\E c \in SelectorPoints : PlaceSelector(c.lat, c.lng)) /\ BoundedSession'
    \/ ClearSelector /\ BoundedSession'
    \/ GetSelectedCoordinates /\ BoundedSession'
    \/ ConfirmSelection /\ BoundedSession'
    \/ (\E c \in SessionRouteCalls, fv \in FitViews :
           drawRoute(c[1], c[2], c[3], c[4], fv)) /\ BoundedSession'
    \/ (\E p \in SessionViews : setView(p[1], p[2], p[3])) /\ BoundedSession'
    \/ ClearRoutes /\ BoundedSession'
    \/ AddMarker(Deg(1), Deg(1)) /\ BoundedSession'
    \/ (\E l \in SessionLists, fv \in FitViews : addMarkers(l, FALSE, fv))
          /\ BoundedSession'
    \/ ClearMarkers /\ BoundedSession'
    \/ AddCircle(Deg(1), Deg(1)) /\ BoundedSession'
    \/ (\E l \in SessionLists, fv \in FitViews : addCircles(l, FALSE, fv))
          /\ BoundedSession'
    \/ ClearCircles /\ BoundedSession'

SpecSession == Init /\ [][NextSession]_vars

\* Initialization with every kind of parameter, re-centering, and the marker
\* and circle lists across map instances
BoundedInit == Len(layerKind) <= MaxInitLayers

NextInit ==
    \/ (\E p \in InitParams : initMap(p)) /\ BoundedInit'
    \/ (\E p \in ViewParams : setView(p[1], p[2], p[3])) /\ BoundedInit'
    \/ AddMarker(Deg(1), Deg(1)) /\ BoundedInit'
    \/ ClearMarkers /\ BoundedInit'
    \/ AddCircle(Deg(1), Deg(1)) /\ BoundedInit'
    \/ ClearCircles /\ BoundedInit'

SpecInit == Init /\ [][NextInit]_vars

\* The distance function on its own
NextDistance == \E a \in DistancePoints, b \in DistancePoints : HaversineDistance(a, b)

SpecDistance == Init /\ [][NextDistance]_vars

\* Enabling the selector after initialization and re-centering
BoundedCenter ==
    /\ Len(layerKind) <= MaxInitLayers
    /\ \A m \in 1..Len(maps) : clickListeners[m] <= MaxSetups

NextCenter ==
    \/ (\E p \in InitParams : initMap(p)) /\ BoundedCenter'
    \/ (\E p \in ViewParams : setView(p[1], p[2], p[3])) /\ BoundedCenter'
    \/ (\E f \in Callbacks : setupSelector(f)) /\ BoundedCenter'
    \/ ClearSelector /\ BoundedCenter'

SpecCenter == Init /\ [][NextCenter]_vars

\* ---------------------------------------------------------------- properties
\* The layer is on the session's current map
Attached(l) == map # 0 /\ layerMap[l] = map

SelectorMarkersOnMap ==
    {l \in 1..Len(layerKind) : layerKind[l] = "selector" /\ Attached(l)}

RouteKinds == {"path", "origin", "destination"}

\* The fields of the session and the state of the engine, without the
\* record of the last call
sessionVars ==
    <<map, maps, config, view, clickListeners, confirmListeners, geocoders,
      selectorMarker, selectedCoords, isSelectorEnabled, onSelectCallback,
      routeLayers, markers, circles, layerKind, layerMap, pending>>

\* C1: after every step at most one selector marker is on the map, and a
\* placeSelector call that directly follows a placeSelector call on an enabled
\* selector leaves exactly one: the marker that call created.
C1_AtMostOneSelectorMarker ==
    [][/\ Cardinality(SelectorMarkersOnMap') <= 1
       /\ (call.op = "placeSelector" /\ call'.op = "placeSelector" /\ isSelectorEnabled)
            => /\ Len(layerKind') = Len(layerKind) + 1
               /\ selectorMarker' = Len(layerKind')
               /\ SelectorMarkersOnMap' = {selectorMarker'}]_vars

\* The default point and two further placements were made, one marker is left
C1_Witness ==
    /\ call.op = "placeSelector"
    /\ CountKind({"selector"}) >= 3
    /\ SelectorMarkersOnMap = {selectorMarker}

\* C2: getSelectedCoordinates returns a point exactly when a selector marker
\* is on the map.
C2_SelectedPointIffSelectorMarker ==
    (getSelectedCoordinates(Self).kind # "null") <=> (SelectorMarkersOnMap # {})

\* C3: the marker list is as long as the number of its markers that are on
\* the map, and holds no handle twice.
C3_MarkerRegistryMatchesMap ==
    /\ Len(markers) = Cardinality({i \in 1..Len(markers) : Attached(markers[i])})
    /\ \A i, j \in 1..Len(markers) : markers[i] = markers[j] => i = j

\* C4: no origin or destination marker of a route is in the marker list, and
\* the endpoint markers of every route not yet cleared by clearRoutes (drawn
\* or still awaiting its path) are on the map.
C4_RouteEndpointsOutsideRegistry ==
    /\ \A i \in 1..Len(markers) : layerKind[markers[i]] \notin {"origin", "destination"}
    /\ \A i \in 1..Len(routeLayers) :
          Attached(routeLayers[i].originMarker) /\ Attached(routeLayers[i].destinationMarker)
    /\ \A p \in pending : Attached(p.originMarker) /\ Attached(p.destinationMarker)

\* C5: a clearRoutes call on an initialized session with no drawRoute call
\* suspended leaves the route list empty and no path, origin marker or
\* destination marker on the map.
C5_ClearRoutesRemovesEveryRoute ==
    [][(call'.op = "clearRoutes" /\ map # 0 /\ pending = {})
          => /\ routeLayers' = <<>>
             /\ \A l \in 1..Len(layerKind') :
                   layerKind'[l] \in RouteKinds => layerMap'[l] # map']_vars

\* clearRoutes ran after two routes were drawn: nothing of them is on the map
C5_Witness ==
    /\ call.op = "clearRoutes"
    /\ pending = {}
    /\ CountKind({"path"}) = 2
    /\ Len(markers) = 4
    /\ routeLayers = <<>>
    /\ \A l \in 1..Len(layerKind) : ~Attached(l)

\* C6: clearRoutes changes neither the marker list nor the circle list, nor
\* whether a layer of either list is on the map.
C6_ClearRoutesKeepsRegistries ==
    [][call'.op = "clearRoutes"
          => /\ markers' = markers
             /\ circles' = circles
             /\ \A i \in 1..Len(markers) : layerMap'[markers[i]] = layerMap[markers[i]]
             /\ \A i \in 1..Len(circles) : layerMap'[circles[i]] = layerMap[circles[i]]]_vars

\* C7: a road-mode drawRoute places both endpoint markers before it awaits
\* the service, and for every failure of the service it returns a straight
\* route with null duration that names those markers, with one new path on
\* the map and one new entry in the route list, and raises no error.
C7_FallbackOnServiceFailure ==
    [][/\ (call'.op = "drawRoute" /\ call'.ret.kind = "pending")
            => /\ call'.fetched
               /\ Len(layerKind') = Len(layerKind) + 2
               /\ layerKind'[Len(layerKind) + 1] = "origin"
               /\ layerKind'[Len(layerKind) + 2] = "destination"
               /\ layerMap'[Len(layerKind) + 1] = map'
               /\ layerMap'[Len(layerKind) + 2] = map'
       /\ (call'.op = "drawRoute.resume" /\ call'.args.outcome \in ServiceFailures)
            => /\ call'.ret.kind = "route"
               /\ call'.ret.type = "straight"
               /\ call'.ret.duration = "null"
               /\ call'.ret.durationMin = "null"
               /\ call'.ret.origin = call'.args.call.originMarker
               /\ call'.ret.destination = call'.args.call.destinationMarker
               /\ layerKind[call'.ret.origin] = "origin"
               /\ layerKind[call'.ret.destination] = "destination"
               /\ Len(layerKind') = Len(layerKind) + 1
               /\ call'.ret.polyline = Len(layerKind')
               /\ layerKind'[Len(layerKind')] = "path"
               /\ layerMap'[Len(layerKind')] = map'
               /\ routeLayers' = Append(routeLayers,
                                        [polyline |-> call'.ret.polyline,
                                         originMarker |-> call'.ret.origin,
                                         destinationMarker |-> call'.ret.destination])]_vars

\* A route without geometry came back and the call returned a straight route
C7_Witness ==
    /\ call.op = "drawRoute.resume"
    /\ call.args.outcome = "noGeometry"
    /\ call.ret.kind = "route"
    /\ call.ret.type = "straight"
    /\ Attached(call.ret.polyline)

LacksLatLng(point) == point.lat.t = "undef" \/ point.lng.t = "undef"

\* C8: a drawRoute call before initMap, or with an endpoint that has no lat
\* or no lng, returns null, issues no routing request and changes no field
\* of the session, no layer and no view.
C8_RejectedDrawRouteHasNoEffect ==
    [][(/\ call'.op = "drawRoute"
        /\ (map = 0 \/ LacksLatLng(call'.args.origin) \/ LacksLatLng(call'.args.destination)))
          => /\ call'.ret.kind = "null"
             /\ ~call'.fetched
             /\ UNCHANGED sessionVars]_vars

\* A road-mode call without a destination latitude was rejected on a session
\* that holds layers
C8_Witness ==
    /\ call.op = "drawRoute"
    /\ map # 0
    /\ call.args.destination.lat.t = "undef"
    /\ call.args.useRoadRoute
    /\ call.ret.kind = "null"
    /\ routeLayers # <<>>

IsNumber(x) == x.t = "num"

\* C9: on an initialized session a drawRoute call whose four coordinates are
\* numbers does not return null.
C9_NumericEndpointsAccepted ==
    (/\ call.op = "drawRoute"
     /\ map # 0
     /\ IsNumber(call.args.origin.lat) /\ IsNumber(call.args.origin.lng)
     /\ IsNumber(call.args.destination.lat) /\ IsNumber(call.args.destination.lng))
        => call.ret.kind # "null"

\* C10 as stated: with the selector enabled and no selector marker created
\* beyond the one setupSelector places, confirmSelection returns null and
\* invokes no callback.
C10_ConfirmWithoutPlacementReturnsNull ==
    (/\ call.op = "confirmSelection"
     /\ isSelectorEnabled
     /\ CountKind({"selector"}) <= 1)
        => (call.ret.kind = "null" /\ call.invoked = <<>>)

\* C10 as amended: confirmSelection returns null, shows the notice and
\* invokes no callback when no point is selected; called right after
\* setupSelector on an initialized session it returns the default point at
\* the configured center and invokes the registered callback once with it.
C10_ConfirmWithoutSelectionReturnsNull ==
    [][/\ (call'.op = "confirmSelection" /\ selectedCoords = <<>>)
            => /\ call'.ret.kind = "null"
               /\ call'.invoked = <<>>
               /\ call'.alerted
               /\ UNCHANGED sessionVars
       /\ (call'.op = "confirmSelection" /\ call.op = "setupSelector" /\ map # 0)
            => /\ call'.ret.kind = "coords"
               /\ call'.ret.lat = config.lat
               /\ call'.ret.lng = config.lng
               /\ call'.invoked = <<[fn |-> onSelectCallback, lat |-> config.lat,
                                     lng |-> config.lng]>>
               /\ ~call'.alerted
               /\ UNCHANGED sessionVars]_vars

\* The selector is enabled with a callback, its point was cleared, and
\* confirmSelection returned null
C10_Witness ==
    /\ call.op = "confirmSelection"
    /\ isSelectorEnabled
    /\ onSelectCallback \in Callbacks
    /\ selectedCoords = <<>>
    /\ call.ret.kind = "null"
    /\ call.alerted

\* C11: a confirmSelection call made while a point is selected invokes the
\* registered callback exactly once, with the numeric lat/lng of the stored
\* point, and returns that point; the point is the one the preceding
\* placeSelector call was given, or the clicked position rounded to eight
\* decimals; no field of the session and no layer changes, so the next
\* getSelectedCoordinates yields the same point.
C11_ConfirmReportsSelectionAndKeepsIt ==
    [][(call'.op = "confirmSelection" /\ selectedCoords # <<>>)
          => /\ onSelectCallback \in Callbacks
             /\ call'.ret.kind = "coords"
             /\ call'.ret.lat = ToNumber(selectedCoords[1].lat)
             /\ call'.ret.lng = ToNumber(selectedCoords[1].lng)
             /\ call'.invoked = <<[fn |-> onSelectCallback, lat |-> call'.ret.lat,
                                   lng |-> call'.ret.lng]>>
             /\ ~call'.alerted
             /\ (call.op = "placeSelector" /\ call.ret.kind # "throw")
                   => /\ call'.ret.lat = call.args[1]
                      /\ call'.ret.lng = call.args[2]
             /\ call.op = "mapClick"
                   => /\ call'.ret.lat = ToNumber(toFixed8(call.args[2]))
                      /\ call'.ret.lng = ToNumber(toFixed8(call.args[3]))
             /\ UNCHANGED sessionVars
             /\ getSelectedCoordinates(Self') = call'.ret]_vars

\* A click at (1.000000004, -2.000000996) was confirmed: the callback got
\* the rounded point (1, -2.000001) once and the selector marker is in place
C11_Witness ==
    /\ call.op = "confirmSelection"
    /\ call.ret.kind = "coords"
    /\ call.ret.lat = Num(1, 1000000, 0)
    /\ call.ret.lng = Num(-1, 2000001, 0)
    /\ Len(call.invoked) = 1
    /\ selectedCoords = <<call.ret.formatted>>
    /\ SelectorMarkersOnMap = {selectorMarker}

\* The public operations other than initMap and the two selector accessors
GuardedOps ==
    {"setupSearch", "setupSelector", "placeSelector", "clearSelector", "drawRoute",
     "setView", "addMarker", "addMarkers", "clearMarkers", "addCircle", "addCircles",
     "clearCircles", "clearRoutes"}

\* What each guarded operation returns before initMap
UninitializedRet(op) ==
    CASE op \in {"setupSearch", "setupSelector", "setView", "clearMarkers", "addCircles",
                 "clearCircles"} -> RetThis
      [] op \in {"drawRoute", "addMarker", "addCircle"} -> RetNull
      [] op = "addMarkers" -> RetEmptyList
      [] op \in {"placeSelector", "clearSelector", "clearRoutes"} -> RetUndefined

\* C12: before initMap each of the thirteen guarded operations changes no
\* field of the session: the selector stays disabled with no callback, no
\* listener or control exists, the three lists are empty and no layer was
\* created; it does not throw, invokes no callback and sends no request;
\* it returns the session, null, an empty list or nothing (undefined).
C12_GuardedBeforeInitMap ==
    [][(map = 0 /\ call'.op \in GuardedOps)
          => /\ UNCHANGED sessionVars
             /\ map' = 0 /\ maps' = <<>> /\ view' = <<>> /\ config' = DEFAULTS
             /\ ~isSelectorEnabled' /\ onSelectCallback' = "null"
             /\ selectorMarker' = 0 /\ selectedCoords' = <<>>
             /\ clickListeners' = <<>> /\ confirmListeners' = <<>> /\ geocoders' = <<>>
             /\ markers' = <<>> /\ circles' = <<>> /\ routeLayers' = <<>>
             /\ layerKind' = <<>> /\ pending' = {}
             /\ call'.ret = UninitializedRet(call'.op)
             /\ call'.invoked = <<>> /\ ~call'.fetched /\ ~call'.alerted]_vars

\* addMarkers was called with one point before initMap and returned an
\* empty list
C12_Witness ==
    /\ map = 0
    /\ call.op = "addMarkers"
    /\ call.args[1] # <<>>
    /\ call.ret = RetEmptyList
    /\ layerKind = <<>>

\* C13: a placeSelector call on an initialized session whose selector is
\* not enabled changes no field of the session and no layer: no marker is
\* created or listed, no point is stored, the selection stays absent; the
\* call does not throw.
C13_PlaceSelectorNeedsEnabledSelector ==
    [][(call'.op = "placeSelector" /\ map # 0 /\ ~isSelectorEnabled)
          => /\ UNCHANGED sessionVars
             /\ selectedCoords' = <<>>
             /\ selectorMarker' = 0
             /\ getSelectedCoordinates(Self').kind = "null"
             /\ CountKind({"selector"})' = 0
             /\ call'.ret.kind # "throw"]_vars

\* placeSelector was called on an initialized session that holds a generic
\* marker and never enabled its selector
C13_Witness ==
    /\ call.op = "placeSelector"
    /\ map # 0
    /\ ~isSelectorEnabled
    /\ markers # <<>>
    /\ selectedCoords = <<>>

\* The layers the three lists track
Tracked ==
    {markers[i] : i \in 1..Len(markers)} \cup {circles[i] : i \in 1..Len(circles)}
    \cup UNION {{routeLayers[i].polyline, routeLayers[i].originMarker,
                 routeLayers[i].destinationMarker} : i \in 1..Len(routeLayers)}

\* C14: the session has created at most one map instance, and no layer that
\* one of the three lists tracks is attached to a map instance other than
\* the session's current one.
C14_AtMostOneMapInstance ==
    /\ Len(maps) <= 1
    /\ \A l \in Tracked : layerMap[l] \in {0, map}

\* The value was provided and parses to a number
Parses(x) == x.t \in {"num", "str"}

\* C15: every initMap call resolves lat and lng with parseFloat and zoom
\* with parseInt: a provided value that parses to a number, zero included,
\* is what config holds after the call and what the new map is centered and
\* zoomed at; a value that is absent or not a number leaves the prior
\* config value.
C15_InitMapResolvesByParsing ==
    [][call'.op = "initMap"
          => /\ config'.lat = IF Parses(call'.args.lat) THEN parseFloat(call'.args.lat)
                              ELSE config.lat
             /\ config'.lng = IF Parses(call'.args.lng) THEN parseFloat(call'.args.lng)
                              ELSE config.lng
             /\ config'.zoom = IF Parses(call'.args.zoom) THEN parseInt(call'.args.zoom)
                               ELSE config.zoom
             /\ call'.ret.kind # "throw"
                   => view' = <<[lat |-> config'.lat, lng |-> config'.lng,
                                 zoom |-> config'.zoom]>>]_vars

\* C16: a setView(lat, lng, zoom) call on an initialized session leaves the
\* view centered at (lat, lng) on the same map instance, with no instance
\* created; the zoom of the view is the given zoom when one is passed, zero
\* included, and the prior zoom when it is omitted.
C16_SetViewCentersAndZooms ==
    [][(call'.op = "setView" /\ map # 0)
          => /\ call'.ret = RetThis
             /\ map' = map
             /\ maps' = maps
             /\ view'[1].lat = call'.args[1]
             /\ view'[1].lng = call'.args[2]
             /\ view'[1].zoom = IF call'.args[3].t = "undef" THEN view[1].zoom
                                ELSE call'.args[3]]_vars

\* C17: every addMarkers call returns the list of the marker handles it
\* created, in input order; the list is empty when the input list is empty
\* and when the session is not initialized.
C17_AddMarkersReturnsHandles ==
    [][call'.op = "addMarkers"
          => /\ call'.ret.kind = "list"
             /\ call'.ret.ids = [i \in 1..(Len(layerKind') - Len(layerKind))
                                    |-> Len(layerKind) + i]
             /\ (call'.args[1] = <<>> \/ map = 0) => call'.ret = RetEmptyList]_vars

\* C18: after a clearMarkers call the marker list is empty and none of the
\* layers it held is attached to the session's map; a clearMarkers call that
\* directly follows a clearMarkers call, or finds the list empty, changes no
\* field of the session and no layer.  The same holds for clearCircles and
\* the circle list.
C18_ClearIsIdempotent ==
    [][/\ call'.op = "clearMarkers"
            => /\ markers' = <<>>
               /\ \A i \in 1..Len(markers) : layerMap'[markers[i]] # map' \/ map' = 0
               /\ (call.op = "clearMarkers" \/ markers = <<>>) => UNCHANGED sessionVars
       /\ call'.op = "clearCircles"
            => /\ circles' = <<>>
               /\ \A i \in 1..Len(circles) : layerMap'[circles[i]] # map' \/ map' = 0
               /\ (call.op = "clearCircles" \/ circles = <<>>) => UNCHANGED sessionVars]_vars

\* clearCircles ran on a session that had drawn two circles: the list is
\* empty and no circle is on the map
C18_Witness ==
    /\ call.op = "clearCircles"
    /\ map # 0
    /\ CountKind({"circle"}) >= 2
    /\ circles = <<>>
    /\ \A l \in 1..Len(layerKind) : layerKind[l] = "circle" => ~Attached(l)

\* The calls that configure or set up the session, and the accessors
SetupOps ==
    {"initMap", "setupSearch", "setupSelector", "setView", "placeSelector",
     "clearSelector", "addMarkers", "addCircles", "clearMarkers", "clearCircles",
     "clearRoutes"}

AccessorOps ==
    {"getSelectedCoordinates", "confirmSelection", "addMarker", "addCircle", "drawRoute"}

\* C19: every configuration or setup call that returns at all returns the
\* session itself, before initMap and after it; an accessor call returns its
\* data (a point, a handle, a route or null) and never the session.
C19_SetupCallsReturnSession ==
    [][/\ (call'.op \in SetupOps /\ call'.ret.kind # "throw") => call'.ret = RetThis
       /\ call'.op \in AccessorOps
            => call'.ret.kind \in {"null", "coords", "handle", "route"}]_vars

\* C20, over finite runs: a drawRoute call on an initialized session whose
\* endpoints pass the precondition returns a route at once or suspends on
\* the routing request, and whenever the request of a suspended call
\* settles, with whatever operations ran in between, the call completes
\* with a route: it does not stay suspended, return null or raise an error.
C20_SuspendedRouteCompletesWithRoute ==
    [][/\ (/\ call'.op = "drawRoute"
           /\ map # 0
           /\ ~missingLatLng(call'.args.origin, call'.args.destination))
            => \/ call'.ret.kind = "route" /\ pending' = pending
               \/ call'.ret.kind = "pending" /\ Cardinality(pending') = Cardinality(pending) + 1
       /\ call'.op = "drawRoute.resume"
            => /\ call'.args.call \in pending
               /\ pending' = pending \ {call'.args.call}
               /\ call'.ret.kind = "route"]_vars

\* C21: the distance of two points is the same number in either order of
\* the points, and the distance of a point to itself is 0.
C21_DistanceSymmetricAndZeroOnSamePoint ==
    call.op = "haversineDistance"
        => /\ call.ret.kind = "number"
           /\ call.ret = haversineDistance(call.args[2].lat, call.args[2].lng,
                                           call.args[1].lat, call.args[1].lng)
           /\ call.args[1] = call.args[2] => call.ret.value = 0

\* The distance from the default center to (10, 20) was computed: about
\* 9400 km
C21_Witness ==
    /\ call.op = "haversineDistance"
    /\ call.args[1] = LatLng(DEFAULTS.lat, DEFAULTS.lng)
    /\ call.args[2] = LatLng(Deg(10), Deg(20))
    /\ call.ret.kind = "number"
    /\ call.ret.value > 9000000 /\ call.ret.value < 9800000

\* C22: a drawRoute call with useRoadRoute false that returns a result sends
\* no request and suspends nothing, and the result has type "straight", the
\* haversine distance and null duration and durationMin; a road-mode call
\* that completes with a result has type "road" with the distance and
\* duration of the service's route exactly when the service returned a route
\* with a geometry, and otherwise type "straight" with null duration.
C22_ResultKindFollowsModeAndOutcome ==
    [][/\ (call'.op = "drawRoute" /\ ~call'.args.useRoadRoute /\ call'.ret.kind # "null")
            => /\ ~call'.fetched
               /\ pending' = pending
               /\ call'.ret.kind = "route"
               /\ call'.ret.type = "straight"
               /\ call'.ret.distance = "haversine"
               /\ call'.ret.duration = "null"
               /\ call'.ret.durationMin = "null"
       /\ (call'.op = "drawRoute" /\ call'.args.useRoadRoute /\ call'.ret.kind # "null")
            => call'.fetched /\ call'.ret.kind = "pending"
       /\ (call'.op = "drawRoute.resume" /\ call'.ret.kind = "route")
            => IF call'.args.outcome \in ServiceFailures
               THEN /\ call'.ret.type = "straight"
                    /\ call'.ret.distance = "haversine"
                    /\ call'.ret.duration = "null"
                    /\ call'.ret.durationMin = "null"
               ELSE /\ call'.ret.type = "road"
                    /\ call'.ret.distance = "service"
                    /\ call'.ret.duration = "service"
                    /\ call'.ret.durationMin = "service"]_vars

\* The service returned a route and the call completed with a road result,
\* the second entry of the route list
C22_Witness ==
    /\ call.op = "drawRoute.resume"
    /\ call.args.outcome = "route"
    /\ call.ret.kind = "route"
    /\ call.ret.type = "road"
    /\ Len(routeLayers) = 2

\* The entries of the route list that hold the path l
EntriesOf(l) == {i \in 1..Len(routeLayers) : routeLayers[i].polyline = l}

\* C23: a drawRoute call that completes with a result appends one entry to
\* the route list, holding the path and the two endpoint markers it
\* returns; clearRoutes on an initialized session empties the list; no other
\* step changes the list, so its length is the number of calls completed
\* with a result since the last clearRoutes; and every path attached to the
\* map is the path of exactly one entry.
C23_OneEntryPerCompletedRoute ==
    [][/\ IF call'.op \in {"drawRoute", "drawRoute.resume"} /\ call'.ret.kind = "route"
          THEN routeLayers' = Append(routeLayers,
                                     [polyline |-> call'.ret.polyline,
                                      originMarker |-> call'.ret.origin,
                                      destinationMarker |-> call'.ret.destination])
          ELSE IF call'.op = "clearRoutes" /\ map # 0
          THEN routeLayers' = <<>>
          ELSE routeLayers' = routeLayers
       /\ \A l \in 1..Len(layerKind') :
             (layerKind'[l] = "path" /\ map' # 0 /\ layerMap'[l] = map')
                => Cardinality(EntriesOf(l)') = 1]_vars

\* C24: a setupSelector call on an initialized session leaves a selected
\* point equal to the center of the map's view at that moment, whatever
\* initMap and setView calls came before, with the selector marker on the
\* map.
C24_DefaultPointAtViewCenter ==
    [][(call'.op = "setupSelector" /\ map # 0)
          => /\ selectedCoords' = <<LatLng(view'[1].lat, view'[1].lng)>>
             /\ view' = view
             /\ SelectorMarkersOnMap' = {selectorMarker'}]_vars

\* The layers held by the entries of the route list
HeldByRouteList ==
    UNION {{routeLayers[i].polyline, routeLayers[i].originMarker,
            routeLayers[i].destinationMarker} : i \in 1..Len(routeLayers)}

\* C25: whenever no drawRoute call is suspended, every path and every
\* origin or destination marker that is on the map is held by an entry of
\* the route list; and a clearRoutes call made while none is suspended
\* leaves no path and no origin or destination marker on the map.
C25_NoRouteLayerOrphaned ==
    [][/\ pending' = {}
            => \A l \in 1..Len(layerKind') :
                  (layerKind'[l] \in RouteKinds /\ map' # 0 /\ layerMap'[l] = map')
                     => l \in HeldByRouteList'
       /\ (call'.op = "clearRoutes" /\ pending = {})
            => \A l \in 1..Len(layerKind') :
                  layerKind'[l] \in RouteKinds => layerMap'[l] = 0]_vars

\* clearRoutes ran while a road-mode call was suspended, the call then
\* completed, and its path and both its markers are on the map and in the
\* one entry of the list
C25_Witness ==
    /\ call.op = "drawRoute.resume"
    /\ pending = {}
    /\ Len(routeLayers) = 1
    /\ CountKind({"path"}) = 2
    /\ Attached(routeLayers[1].polyline)
    /\ Attached(routeLayers[1].originMarker)
    /\ Attached(routeLayers[1].destinationMarker)

\* C26: however often setupSelector was called, one click on the confirm
\* button while a point is selected invokes the callback registered last,
\* once, and no other function; and one click on the map of an enabled
\* selector creates one selector marker, which is then the only one on the
\* map.
C26_SingleSubscriber ==
    [][/\ (call'.op = "confirmClick" /\ selectedCoords # <<>>)
            => /\ Len(call'.invoked) = 1
               /\ \A i \in 1..Len(call'.invoked) : call'.invoked[i].fn = onSelectCallback
       /\ (call'.op = "mapClick" /\ call'.args[1] = map)
            => /\ Len(layerKind') = Len(layerKind) + 1
               /\ layerKind'[Len(layerKind')] = "selector"
               /\ SelectorMarkersOnMap' = {Len(layerKind')}]_vars

====
